---- MODULE Spec2Model ----
(***************************************************************************)
(* inTouch backend: the friendship graph handlers of                       *)
(* backend/src/controllers/friendController.js behind the Express          *)
(* middleware chain of index.js, over the Users and Friendships tables.    *)
(*                                                                         *)
(* Every handler is an async function that suspends only on its storage    *)
(* calls, so a request is a small process: the synchronous prefix of the   *)
(* handler runs in its Call action, and each awaited storage call is one   *)
(* atomic step of the database.  Requests of different connections         *)
(* interleave at those steps.                                              *)
(*                                                                         *)
(* The same holds for syncUser (backend/src/middleware/auth.js) and        *)
(* searchUsers (backend/src/controllers/userController.js), and for the    *)
(* UserSync component of the mobile client, whose async syncUser suspends  *)
(* at its awaits while React commits renders and runs effects.             *)
(***************************************************************************)
EXTENDS Integers, FiniteSets, Sequences, TLC

\* Number of Friendship ids the store hands out before the model stops
\* creating edges (ids are fresh and never reused).
MaxEdgeId == 2

\* Connections that can each carry one request at a time.
Reqs == {"r1", "r2"}

\* Identities the auth provider can put in req.auth.userId, and the value
\* standing for a request without one.
ClerkIds == {"c1", "c2"}
NoAuth == "anonymous"

\* User ids a client can put in a body or a path; no User row has id "u3".
UserIds == {"u1", "u2", "u3"}

\* Friendship ids a client can put in /friends/:id/...
EdgeIds == 1 .. MaxEdgeId

\* The two tables, the next Friendship id, the requests in flight, and on the
\* device the UserSync component with the invocations of its syncUser.
VARIABLES users, friendships, nextId, reqs, client, syncs

vars == <<users, friendships, nextId, reqs, client, syncs>>

----------------------------------------------------------------------------
(* Rows and values *)

NoEdge == [id |-> 0, userId |-> "none", friendId |-> "none", status |-> "none"]

NoUser == [id |-> "none", clerkId |-> "none", email |-> "none", name |-> "none"]

\* A response: its status, its error or message text, its details field,
\* and the friendship row, the user row or the list it carries.
NoResp == [status |-> 0, text |-> "none", details |-> "none",
           friendship |-> NoEdge, user |-> NoUser, rows |-> {}]

\* req.query.q: absent, or a text given as its sequence of characters.
NoQuery == [present |-> FALSE, text |-> <<>>]

\* A request: the handler, where it is suspended, req.auth.userId, the
\* body, path and query parameters, the row a lookup found, and the response.
Idle == [op |-> "none", pc |-> "idle", auth |-> NoAuth, userId |-> "none",
         friendId |-> "none", id |-> 0, email |-> "none", name |-> "none",
         q |-> NoQuery, found |-> 0, resp |-> NoResp]

\* res.status(s).json({ error | message: text })
Reply(s, text) == [NoResp EXCEPT !.status = s, !.text = text]

\* res.status(s).json(friendship row)
ReplyEdge(s, text, e) == [Reply(s, text) EXCEPT !.friendship = e]

\* res.json(user row)
ReplyUser(s, u) == [Reply(s, "user") EXCEPT !.user = u]

\* res.json(list of user rows, each with a friendshipId)
ReplyRows(s, rows) == [Reply(s, "list") EXCEPT !.rows = rows]

\* The database at the start: two users that have each been synced from
\* their auth-provider identity.
InitialUsers ==
  { [id |-> "u1", clerkId |-> "c1", email |-> "e1", name |-> "n1"],
    [id |-> "u2", clerkId |-> "c2", email |-> "e2", name |-> "n2"] }

----------------------------------------------------------------------------
(* The device: the mounted UserSync component *)

\* Number of POST /api/sync-user of the component that reach the server
\* before the model stops it.
MaxPosts == 2

\* Invocations of the async function syncUser that can be suspended at once.
Syncs == {"s1", "s2"}

\* The signed-in Clerk user of the device: userId, email and derived name.
ClientClerkId == "c1"
ClientEmail == "e1"
ClientName == "n1"

\* AsyncStorage without 'user_id', and an id left there by an earlier
\* session.
NoStoredId == "none"
OldStoredId == "u0"

\* The component after its first render: the state synced, the ref
\* syncingRef.current, AsyncStorage 'user_id', the POSTs sent so far, the
\* status of the last response, the last console message of syncUser,
\* whether an effect run has returned at the guard while a sync was in
\* progress, and the effect of the last commit that has not run yet together
\* with the value of synced its closure holds.
Mounted ==
  [synced |-> FALSE, syncing |-> FALSE, stored |-> NoStoredId, posts |-> 0,
   lastStatus |-> 0, log |-> "none", skipped |-> FALSE,
   effect |-> [pending |-> TRUE, synced |-> FALSE]]

\* An invocation of syncUser: where it is suspended, the connection of its
\* POST, and dbUser.id.
NotRunning == [pc |-> "idle", slot |-> "none", id |-> "none"]

----------------------------------------------------------------------------
(* Storage layer: the Prisma client over the Friendships table *)

UserExists(us, uid) == \E u \in us : u.id = uid

EdgesOfPair(fs, userId, friendId) ==
  { e \in fs : e.userId = userId /\ e.friendId = friendId }

EdgeWithId(fs, id) == { e \in fs : e.id = id }

\* A Friendship table without the unique index.
UniquePairViolated_NoIndex(fs, userId, friendId) == FALSE

\* The unique index on (userId, friendId) of the Friendship table.
UniquePairViolated(fs, userId, friendId) ==
  EdgesOfPair(fs, userId, friendId) # {}

\* The relations user and friend of a Friendship row to rows of Users.
ForeignKeyViolated(us, userId, friendId) ==
  ~UserExists(us, userId) \/ ~UserExists(us, friendId)

\* prisma.friendship.create: the error code it throws, or "ok".
FriendshipCreateCode(us, fs, data) ==
  IF UniquePairViolated(fs, data.userId, data.friendId) THEN "P2002"
  ELSE IF ForeignKeyViolated(us, data.userId, data.friendId) THEN "P2003"
  ELSE "ok"

\* prisma.friendship.findFirst({ where: { userId, friendId } }): the id of
\* the first matching row, 0 for null.
FriendshipFindFirst(fs, userId, friendId) ==
  IF EdgesOfPair(fs, userId, friendId) = {} THEN 0
  ELSE LET ids == { e.id : e \in EdgesOfPair(fs, userId, friendId) }
       IN CHOOSE i \in ids : \A j \in ids : i <= j

\* prisma.friendship.update / delete ({ where: { id } }) throw P2025 when
\* no row has that id.
FriendshipByIdCode(fs, id) ==
  IF EdgeWithId(fs, id) = {} THEN "P2025" ELSE "ok"

FriendshipDeleted(fs, id) == { e \in fs : e.id # id }

FriendshipUpdated(fs, id, status) ==
  { IF e.id = id THEN [e EXCEPT !.status = status] ELSE e : e \in fs }

TheEdge(fs, id) == CHOOSE e \in fs : e.id = id

\* include: { user: true } / { friend: true }: the User row of an edge side.
TheUser(us, uid) == CHOOSE u \in us : u.id = uid

----------------------------------------------------------------------------
(* Middleware chain of /friends: ClerkExpressRequireAuth(), attachClerkUser *)

\* attachClerkUser calling next() whatever req.auth holds.
AttachClerkUser_PassThrough(auth) == TRUE

\* if (req.auth && req.auth.userId): next(), else 401.  Without the Clerk
\* SDK the fallback ClerkExpressRequireAuth only calls next(), so req.auth
\* is never set.
AttachClerkUser(auth) == auth # NoAuth

Unauthorized == Reply(401, "Unauthorized: No user ID found")

\* A connection takes a new request once the previous one is over.
CanCall(r) == reqs[r].pc = "idle"

\* The handler has returned and its response has been delivered.
Close(r) ==
  /\ reqs[r].pc = "done"
  /\ reqs' = [reqs EXCEPT ![r] = Idle]
  /\ UNCHANGED <<users, friendships, nextId, client, syncs>>

Finish(r, resp) ==
  reqs' = [reqs EXCEPT ![r].pc = "done", ![r].resp = resp]

----------------------------------------------------------------------------
(* addFriend: POST /friends *)

\* addFriend without the guard against adding yourself.
AddFriendSelfCheck_Missing(userId, friendId) == FALSE

AddFriendSelfCheck(userId, friendId) == userId = friendId

\* addFriend creating the edge as an accepted friendship.
AddFriendData_Accepted(userId, friendId) ==
  [userId |-> userId, friendId |-> friendId, status |-> "ACCEPTED"]

AddFriendData(userId, friendId) ==
  [userId |-> userId, friendId |-> friendId, status |-> "PENDING"]

\* addFriend without the P2002 branch of its catch block.
AddFriendCatch_NoP2002(code) == Reply(500, "Failed to send friend request.")

AddFriendCatch(code) ==
  IF code = "P2002" THEN Reply(400, "Friend request already sent.")
  ELSE Reply(500, "Failed to send friend request.")

CallAddFriend(r) ==
  /\ CanCall(r)
  /\ \E auth \in ClerkIds \cup {NoAuth}, userId \in UserIds, friendId \in UserIds :
       LET req == [Idle EXCEPT !.op = "addFriend", !.auth = auth,
                               !.userId = userId, !.friendId = friendId]
       IN reqs' = [reqs EXCEPT ![r] =
            IF ~AttachClerkUser(auth)
              THEN [req EXCEPT !.pc = "done", !.resp = Unauthorized]
            ELSE IF AddFriendSelfCheck(userId, friendId)
              THEN [req EXCEPT !.pc = "done",
                      !.resp = Reply(400, "Cannot add yourself as a friend.")]
            ELSE [req EXCEPT !.pc = "create"]]
  /\ UNCHANGED <<users, friendships, nextId, client, syncs>>

AddFriendCreate(r) ==
  /\ reqs[r].op = "addFriend" /\ reqs[r].pc = "create"
  /\ LET data == AddFriendData(reqs[r].userId, reqs[r].friendId)
         code == FriendshipCreateCode(users, friendships, data)
         row  == [id |-> nextId, userId |-> data.userId,
                  friendId |-> data.friendId, status |-> data.status]
     IN IF code = "ok"
          THEN /\ nextId <= MaxEdgeId
               /\ friendships' = friendships \cup {row}
               /\ nextId' = nextId + 1
               /\ Finish(r, ReplyEdge(201, "friendship", row))
          ELSE /\ Finish(r, AddFriendCatch(code))
               /\ UNCHANGED <<friendships, nextId>>
  /\ UNCHANGED <<users, client, syncs>>

----------------------------------------------------------------------------
(* removeFriend: DELETE /friends *)

CallRemoveFriend(r) ==
  /\ CanCall(r)
  /\ \E auth \in ClerkIds \cup {NoAuth}, userId \in UserIds, friendId \in UserIds :
       LET req == [Idle EXCEPT !.op = "removeFriend", !.auth = auth,
                               !.userId = userId, !.friendId = friendId]
       IN reqs' = [reqs EXCEPT ![r] =
            IF ~AttachClerkUser(auth)
              THEN [req EXCEPT !.pc = "done", !.resp = Unauthorized]
            ELSE [req EXCEPT !.pc = "findFirst"]]
  /\ UNCHANGED <<users, friendships, nextId, client, syncs>>

RemoveFriendFind(r) ==
  /\ reqs[r].op = "removeFriend" /\ reqs[r].pc = "findFirst"
  /\ LET f == FriendshipFindFirst(friendships, reqs[r].userId, reqs[r].friendId)
     IN IF f = 0
          THEN Finish(r, Reply(404, "Friendship not found."))
          ELSE reqs' = [reqs EXCEPT ![r].pc = "delete", ![r].found = f]
  /\ UNCHANGED <<users, friendships, nextId, client, syncs>>

RemoveFriendDelete(r) ==
  /\ reqs[r].op = "removeFriend" /\ reqs[r].pc = "delete"
  /\ IF FriendshipByIdCode(friendships, reqs[r].found) = "ok"
       THEN /\ friendships' = FriendshipDeleted(friendships, reqs[r].found)
            /\ Finish(r, Reply(200, "Friendship removed successfully."))
       ELSE /\ Finish(r, Reply(500, "Failed to remove friendship."))
            /\ UNCHANGED friendships
  /\ UNCHANGED <<users, nextId, client, syncs>>

----------------------------------------------------------------------------
(* acceptFriendRequest: PUT /friends/:id/accept *)

AcceptData == "ACCEPTED"

\* acceptFriendRequest accepting the edge of the opposite direction as well.
AcceptUpdated_BothDirections(fs, id) ==
  { IF \E e \in EdgeWithId(fs, id) :
         \/ f = e
         \/ (f.userId = e.friendId /\ f.friendId = e.userId)
      THEN [f EXCEPT !.status = AcceptData]
      ELSE f : f \in fs }

\* acceptFriendRequest updating every row instead of the row with this id.
AcceptUpdated_AllRows(fs, id) ==
  { [e EXCEPT !.status = AcceptData] : e \in fs }

AcceptUpdated(fs, id) == FriendshipUpdated(fs, id, AcceptData)

AcceptCatch(code) ==
  IF code = "P2025" THEN Reply(404, "Friend request not found.")
  ELSE Reply(500, "Failed to accept friend request.")

CallAcceptFriendRequest(r) ==
  /\ CanCall(r)
  /\ \E auth \in ClerkIds \cup {NoAuth}, id \in EdgeIds :
       LET req == [Idle EXCEPT !.op = "acceptFriendRequest", !.auth = auth,
                               !.id = id]
       IN reqs' = [reqs EXCEPT ![r] =
            IF ~AttachClerkUser(auth)
              THEN [req EXCEPT !.pc = "done", !.resp = Unauthorized]
            ELSE [req EXCEPT !.pc = "update"]]
  /\ UNCHANGED <<users, friendships, nextId, client, syncs>>

AcceptFriendRequestUpdate(r) ==
  /\ reqs[r].op = "acceptFriendRequest" /\ reqs[r].pc = "update"
  /\ LET code == FriendshipByIdCode(friendships, reqs[r].id)
     IN IF code = "ok"
          THEN /\ friendships' = AcceptUpdated(friendships, reqs[r].id)
               /\ Finish(r, ReplyEdge(200, "Friend request accepted.",
                                      TheEdge(friendships', reqs[r].id)))
          ELSE /\ Finish(r, AcceptCatch(code))
               /\ UNCHANGED friendships
  /\ UNCHANGED <<users, nextId, client, syncs>>

----------------------------------------------------------------------------
(* rejectFriendRequest: DELETE /friends/:id/reject *)

\* rejectFriendRequest keeping the row and marking it rejected.
RejectDeleted_KeepRow(fs, id) == FriendshipUpdated(fs, id, "REJECTED")

RejectDeleted(fs, id) == FriendshipDeleted(fs, id)

\* rejectFriendRequest without the P2025 branch of its catch block.
RejectCatch_NoP2025(code) == Reply(500, "Failed to reject friend request.")

RejectCatch(code) ==
  IF code = "P2025" THEN Reply(404, "Friend request not found.")
  ELSE Reply(500, "Failed to reject friend request.")

CallRejectFriendRequest(r) ==
  /\ CanCall(r)
  /\ \E auth \in ClerkIds \cup {NoAuth}, id \in EdgeIds :
       LET req == [Idle EXCEPT !.op = "rejectFriendRequest", !.auth = auth,
                               !.id = id]
       IN reqs' = [reqs EXCEPT ![r] =
            IF ~AttachClerkUser(auth)
              THEN [req EXCEPT !.pc = "done", !.resp = Unauthorized]
            ELSE [req EXCEPT !.pc = "delete"]]
  /\ UNCHANGED <<users, friendships, nextId, client, syncs>>

RejectFriendRequestDelete(r) ==
  /\ reqs[r].op = "rejectFriendRequest" /\ reqs[r].pc = "delete"
  /\ LET code == FriendshipByIdCode(friendships, reqs[r].id)
     IN IF code = "ok"
          THEN /\ friendships' = RejectDeleted(friendships, reqs[r].id)
               /\ Finish(r, Reply(200, "Friend request rejected."))
          ELSE /\ Finish(r, RejectCatch(code))
               /\ UNCHANGED friendships
  /\ UNCHANGED <<users, nextId, client, syncs>>

----------------------------------------------------------------------------
(* getFriendRequests: GET /friends/requests/:userId *)

\* getFriendRequests listing every edge received, whatever its status.
FriendRequestsWhere_AnyStatus(e, userId) == e.friendId = userId

FriendRequestsWhere(e, userId) ==
  e.friendId = userId /\ e.status = "PENDING"

\* requests.map(entry => ({ ...entry.user, friendshipId: entry.id }))
FriendRequestsOf(us, fs, userId) ==
  { [user |-> TheUser(us, e.userId), friendshipId |-> e.id] :
      e \in { x \in fs : FriendRequestsWhere(x, userId) } }

CallGetFriendRequests(r) ==
  /\ CanCall(r)
  /\ \E auth \in ClerkIds \cup {NoAuth}, userId \in UserIds :
       LET req == [Idle EXCEPT !.op = "getFriendRequests", !.auth = auth,
                               !.userId = userId]
       IN reqs' = [reqs EXCEPT ![r] =
            IF ~AttachClerkUser(auth)
              THEN [req EXCEPT !.pc = "done", !.resp = Unauthorized]
            ELSE [req EXCEPT !.pc = "findMany"]]
  /\ UNCHANGED <<users, friendships, nextId, client, syncs>>

GetFriendRequestsFind(r) ==
  /\ reqs[r].op = "getFriendRequests" /\ reqs[r].pc = "findMany"
  /\ Finish(r, ReplyRows(200, FriendRequestsOf(users, friendships, reqs[r].userId)))
  /\ UNCHANGED <<users, friendships, nextId, client, syncs>>

----------------------------------------------------------------------------
(* getUserFriends: GET /users/:id/friends *)

\* getUserFriends matching the edges the user received.
UserFriendsWhere_Received(e, id) == e.friendId = id

UserFriendsWhere(e, id) == e.userId = id

\* friendships.map(entry => ({ ...entry.friend, friendshipId: entry.id }))
UserFriendsOf(us, fs, id) ==
  { [user |-> TheUser(us, e.friendId), friendshipId |-> e.id] :
      e \in { x \in fs : UserFriendsWhere(x, id) } }

CallGetUserFriends(r) ==
  /\ CanCall(r)
  /\ \E auth \in ClerkIds \cup {NoAuth}, userId \in UserIds :
       LET req == [Idle EXCEPT !.op = "getUserFriends", !.auth = auth,
                               !.userId = userId]
       IN reqs' = [reqs EXCEPT ![r] =
            IF ~AttachClerkUser(auth)
              THEN [req EXCEPT !.pc = "done", !.resp = Unauthorized]
            ELSE [req EXCEPT !.pc = "findMany"]]
  /\ UNCHANGED <<users, friendships, nextId, client, syncs>>

GetUserFriendsFind(r) ==
  /\ reqs[r].op = "getUserFriends" /\ reqs[r].pc = "findMany"
  /\ Finish(r, ReplyRows(200, UserFriendsOf(users, friendships, reqs[r].userId)))
  /\ UNCHANGED <<users, friendships, nextId, client, syncs>>

----------------------------------------------------------------------------
(* The friendship service *)

Init ==
  /\ users = InitialUsers
  /\ friendships = {}
  /\ nextId = 1
  /\ reqs = [r \in Reqs |-> Idle]
  /\ client = Mounted
  /\ syncs = [s \in Syncs |-> NotRunning]

Next ==
  \E r \in Reqs :
    \/ CallAddFriend(r)
    \/ AddFriendCreate(r)
    \/ CallRemoveFriend(r)
    \/ RemoveFriendFind(r)
    \/ RemoveFriendDelete(r)
    \/ CallAcceptFriendRequest(r)
    \/ AcceptFriendRequestUpdate(r)
    \/ CallRejectFriendRequest(r)
    \/ RejectFriendRequestDelete(r)
    \/ CallGetFriendRequests(r)
    \/ GetFriendRequestsFind(r)
    \/ CallGetUserFriends(r)
    \/ GetUserFriendsFind(r)
    \/ Close(r)

Spec == Init /\ [][Next]_vars

----------------------------------------------------------------------------
(* Storage layer: the Prisma client over the Users table *)

\* Identities, emails and names a sync request can carry; the empty string
\* stands for a body without email.
SyncClerkIds == {"c1", "c2", "c3"}
Emails == {"e1", "e2"}
MissingEmail == ""
Names == {"n1", "n2"}

\* prisma.user.findUnique({ where: { clerkId } }): the matching rows.
UserByClerkId(us, clerkId) == { u \in us : u.clerkId = clerkId }

\* A Users table without the unique index on clerkId.
ClerkIdUniqueViolated_NoIndex(us, clerkId) == FALSE

\* clerkId is @unique: a second row with the same clerkId is refused.
ClerkIdUniqueViolated(us, clerkId) == UserByClerkId(us, clerkId) # {}

\* email is unique: a row other than those in self holds the email.
EmailUniqueViolated(us, self, email) ==
  \E u \in us \ self : u.email = email

\* Ids of new rows are fresh; User rows are never deleted.
NewUserId(us) == "u" \o ToString(Cardinality(us) + 1)

\* prisma.user.create: the error code it throws, or "ok".
UserCreateCode(us, data) ==
  IF ClerkIdUniqueViolated(us, data.clerkId) THEN "P2002"
  ELSE IF EmailUniqueViolated(us, {}, data.email) THEN "P2002"
  ELSE "ok"

\* prisma.user.update({ where: { clerkId } }): the error code, or "ok".
UserUpdateCode(us, clerkId, data) ==
  IF UserByClerkId(us, clerkId) = {} THEN "P2025"
  ELSE IF EmailUniqueViolated(us, UserByClerkId(us, clerkId), data.email)
       THEN "P2002"
  ELSE "ok"

----------------------------------------------------------------------------
(* syncUser: POST /api/sync-user *)

\* syncUser never finding the row of the caller.
SyncFindUnique_Nothing(us, clerkId) == {}

SyncFindUnique(us, clerkId) == UserByClerkId(us, clerkId)

\* syncUser updating the name only.
SyncUpdateData_NameOnly(u, email, name) == [u EXCEPT !.name = name]

SyncUpdateData(u, email, name) == [u EXCEPT !.email = email, !.name = name]

SyncCreateData(clerkId, email, name) ==
  [clerkId |-> clerkId, email |-> email, name |-> name]

\* syncUser without the P2002 branch of its catch block.
SyncCatch_NoP2002(code) == Reply(500, "Failed to sync user")

\* Errors the storage layer throws when the database cannot serve a call.
StorageFaults == {"P1001", "P2024"}

\* error.message: each error carries its own text.
ErrorMessage(code) == "message of " \o code

SyncCatch(code) ==
  IF code = "P2002"
    THEN Reply(409, "Email already exists with a different account")
  ELSE [Reply(500, "Failed to sync user") EXCEPT
          !.details = ErrorMessage(code)]

\* syncUser accepting a body without email.
SyncEmailMissing_Never(email) == FALSE

\* if (!email): the body carries no email, or an empty one.
SyncEmailMissing(email) == email = MissingEmail

\* POST /api/sync-user up to the first storage call: attachClerkUser, then
\* the synchronous prefix of syncUser.
SyncUserRequest(auth, email, name) ==
  LET req == [Idle EXCEPT !.op = "syncUser", !.auth = auth,
                          !.email = email, !.name = name]
  IN IF ~AttachClerkUser(auth)
       THEN [req EXCEPT !.pc = "done", !.resp = Unauthorized]
     ELSE IF SyncEmailMissing(email)
       THEN [req EXCEPT !.pc = "done",
               !.resp = Reply(400, "Email is required")]
     ELSE [req EXCEPT !.pc = "findUnique"]

CallSyncUser(r) ==
  /\ CanCall(r)
  /\ \E auth \in SyncClerkIds \cup {NoAuth},
        email \in Emails \cup {MissingEmail}, name \in Names :
       reqs' = [reqs EXCEPT ![r] = SyncUserRequest(auth, email, name)]
  /\ UNCHANGED <<users, friendships, nextId, client, syncs>>

SyncUserFind(r) ==
  /\ reqs[r].op = "syncUser" /\ reqs[r].pc = "findUnique"
  /\ reqs' = [reqs EXCEPT ![r].pc =
       IF SyncFindUnique(users, reqs[r].auth) # {} THEN "update" ELSE "create"]
  /\ UNCHANGED <<users, friendships, nextId, client, syncs>>

SyncUserUpdate(r) ==
  /\ reqs[r].op = "syncUser" /\ reqs[r].pc = "update"
  /\ LET old  == UserByClerkId(users, reqs[r].auth)
         code == UserUpdateCode(users, reqs[r].auth,
                   SyncCreateData(reqs[r].auth, reqs[r].email, reqs[r].name))
     IN IF code = "ok"
          THEN LET u   == CHOOSE x \in old : TRUE
                   new == SyncUpdateData(u, reqs[r].email, reqs[r].name)
               IN /\ users' = (users \ {u}) \cup {new}
                  /\ Finish(r, ReplyUser(200, new))
          ELSE /\ Finish(r, SyncCatch(code))
               /\ UNCHANGED users
  /\ UNCHANGED <<friendships, nextId, client, syncs>>

SyncUserCreate(r) ==
  /\ reqs[r].op = "syncUser" /\ reqs[r].pc = "create"
  /\ LET data == SyncCreateData(reqs[r].auth, reqs[r].email, reqs[r].name)
         code == UserCreateCode(users, data)
         new  == [id |-> NewUserId(users), clerkId |-> data.clerkId,
                  email |-> data.email, name |-> data.name]
     IN IF code = "ok"
          THEN /\ users' = users \cup {new}
               /\ Finish(r, ReplyUser(200, new))
          ELSE /\ Finish(r, SyncCatch(code))
               /\ UNCHANGED users
  /\ UNCHANGED <<friendships, nextId, client, syncs>>

\* The awaited storage call of syncUser throws: the database is unreachable
\* or the connection pool timed out.
SyncStorageFails(r) ==
  /\ reqs[r].op = "syncUser"
  /\ reqs[r].pc \in {"findUnique", "update", "create"}
  /\ \E code \in StorageFaults : Finish(r, SyncCatch(code))
  /\ UNCHANGED <<users, friendships, nextId, client, syncs>>

----------------------------------------------------------------------------
(* The identity sync service, from an empty Users table *)

SyncInit ==
  /\ users = {}
  /\ friendships = {}
  /\ nextId = 1
  /\ reqs = [r \in Reqs |-> Idle]
  /\ client = Mounted
  /\ syncs = [s \in Syncs |-> NotRunning]

SyncNext ==
  \E r \in Reqs :
    \/ CallSyncUser(r)
    \/ SyncUserFind(r)
    \/ SyncUserUpdate(r)
    \/ SyncUserCreate(r)
    \/ Close(r)

SpecSync == SyncInit /\ [][SyncNext]_vars

\* The identity sync service over a database that can fail.
FaultNext ==
  \/ SyncNext
  \/ \E r \in Reqs : SyncStorageFails(r)

SpecFault == SyncInit /\ [][FaultNext]_vars

----------------------------------------------------------------------------
(* UserSync: the component that syncs the Clerk user to the backend *)

\* The guard of syncUser without the in-progress ref.
SyncGuard_NoRef(signedIn, synced, syncing) == ~signedIn \/ synced

\* if (!isSignedIn || !userId || !user || synced || syncingRef.current)
\* return;
SyncGuard(signedIn, synced, syncing) == ~signedIn \/ synced \/ syncing

\* A response taken as successful whatever its status.
ResponseOk_Always(status) == TRUE

\* response.ok
ResponseOk(status) == status >= 200 /\ status <= 299

\* catch: console.error, setSynced(true); finally: syncingRef.current =
\* false.
CatchExit(c) ==
  [c EXCEPT !.synced = TRUE, !.syncing = FALSE, !.log = "Error syncing user:"]

\* return inside try with no token: only the finally block runs.
NoTokenExit(c) ==
  [c EXCEPT !.syncing = FALSE, !.log = "No token available for user sync"]

\* if (!email): setSynced(true); return; then the finally block.
NoEmailExit(c) ==
  [c EXCEPT !.synced = TRUE, !.syncing = FALSE,
            !.log = "No email found for user - skipping sync"]

\* After AsyncStorage.setItem: setSynced(true), then the finally block.
SuccessExit(c, id) ==
  [c EXCEPT !.stored = id, !.synced = TRUE, !.syncing = FALSE]

\* The connections on which an invocation awaits its response.
ClientSlots == { syncs[s].slot : s \in Syncs }

\* A commit of the component: a dependency of the effect changed (getToken
\* recreated, or synced set), so its effect is scheduled with the value of
\* synced of this render.  Pending effects run before the next render.
Render ==
  /\ ~client.effect.pending
  /\ client' = [client EXCEPT !.effect = [pending |-> TRUE,
                                          synced |-> client.synced]]
  /\ UNCHANGED <<users, friendships, nextId, reqs, syncs>>

\* The scheduled effect runs: syncUser() up to its first await.
EffectRun ==
  /\ client.effect.pending
  /\ \E signedIn \in BOOLEAN :
       IF SyncGuard(signedIn, client.effect.synced, client.syncing)
         THEN /\ client' = [client EXCEPT !.effect.pending = FALSE,
                    !.skipped = @ \/ (signedIn /\ ~client.effect.synced)]
              /\ UNCHANGED syncs
         ELSE \E s \in Syncs :
                /\ syncs[s].pc = "idle"
                /\ client' = [client EXCEPT !.effect.pending = FALSE,
                                            !.syncing = TRUE]
                /\ syncs' = [syncs EXCEPT ![s].pc = "getToken"]
  /\ UNCHANGED <<users, friendships, nextId, reqs>>

\* await getToken() resolves, with or without a token; with one, the email
\* is read from the Clerk user and the request is built.
GetTokenResolves(s) ==
  /\ syncs[s].pc = "getToken"
  /\ \E token \in BOOLEAN, hasEmail \in BOOLEAN :
       IF ~token
         THEN /\ client' = NoTokenExit(client)
              /\ syncs' = [syncs EXCEPT ![s] = NotRunning]
       ELSE IF ~hasEmail
         THEN /\ client' = NoEmailExit(client)
              /\ syncs' = [syncs EXCEPT ![s] = NotRunning]
       ELSE /\ syncs' = [syncs EXCEPT ![s].pc = "authedFetch"]
            /\ UNCHANGED client
  /\ UNCHANGED <<users, friendships, nextId, reqs>>

\* authedFetch: await getToken() again, then fetch sends the POST, with the
\* Authorization header only when there is a token.
PostSyncUser(s) ==
  /\ syncs[s].pc = "authedFetch"
  /\ client.posts < MaxPosts
  /\ \E token \in BOOLEAN, r \in Reqs :
       /\ CanCall(r)
       /\ reqs' = [reqs EXCEPT ![r] =
            SyncUserRequest(IF token THEN ClientClerkId ELSE NoAuth,
                            ClientEmail, ClientName)]
       /\ syncs' = [syncs EXCEPT ![s].pc = "fetch", ![s].slot = r]
  /\ client' = [client EXCEPT !.posts = @ + 1]
  /\ UNCHANGED <<users, friendships, nextId>>

\* fetch rejects before the request reaches the server (network error): the
\* catch block, then finally.
FetchThrows(s) ==
  /\ syncs[s].pc = "authedFetch"
  /\ client' = CatchExit(client)
  /\ syncs' = [syncs EXCEPT ![s] = NotRunning]
  /\ UNCHANGED <<users, friendships, nextId, reqs>>

\* The response arrives.  Not ok: throw, catch, finally.  Ok: dbUser is read
\* and AsyncStorage.setItem is awaited.
FetchResolves(s) ==
  /\ syncs[s].pc = "fetch"
  /\ LET r == syncs[s].slot
     IN /\ reqs[r].pc = "done"
        /\ reqs' = [reqs EXCEPT ![r] = Idle]
        /\ IF ResponseOk(reqs[r].resp.status)
             THEN /\ syncs' = [syncs EXCEPT ![s] =
                        [pc |-> "setItem", slot |-> "none",
                         id |-> reqs[r].resp.user.id]]
                  /\ client' = [client EXCEPT
                        !.lastStatus = reqs[r].resp.status,
                        !.log = "User synced successfully:"]
             ELSE /\ syncs' = [syncs EXCEPT ![s] = NotRunning]
                  /\ client' = [CatchExit(client) EXCEPT
                        !.lastStatus = reqs[r].resp.status]
  /\ UNCHANGED <<users, friendships, nextId>>

\* await AsyncStorage.setItem(USER_ID_KEY, dbUser.id) resolves.
SetItemResolves(s) ==
  /\ syncs[s].pc = "setItem"
  /\ client' = SuccessExit(client, syncs[s].id)
  /\ syncs' = [syncs EXCEPT ![s] = NotRunning]
  /\ UNCHANGED <<users, friendships, nextId, reqs>>

\* Another device of the same Clerk user calls POST /api/sync-user.
OtherDeviceSync(r) ==
  /\ CallSyncUser(r)
  /\ reqs'[r].auth = ClientClerkId
  /\ reqs'[r].email # MissingEmail

\* The other device takes its response.
OtherDeviceClose(r) ==
  /\ r \notin ClientSlots
  /\ Close(r)

----------------------------------------------------------------------------
(* searchUsers: GET /users/search?q= *)

\* Characters String.prototype.trim removes.
WhiteSpace == {" ", "\t"}

\* Query strings a client sends.
QueryTexts ==
  { <<>>, <<" ">>, <<"\t", " ">>, <<"e">>, <<" ", "E", "1">>,
    <<"n", "2", " ">>, <<"x">> }

Queries == {NoQuery} \cup { [present |-> TRUE, text |-> t] : t \in QueryTexts }

\* The characters of the emails and names stored in the Users table.
CharsOf ==
  [e1 |-> <<"e", "1">>, e2 |-> <<"e", "2">>,
   n1 |-> <<"n", "1">>, n2 |-> <<"n", "2">>]

RECURSIVE TrimStart(_)
TrimStart(t) ==
  IF t # <<>> /\ Head(t) \in WhiteSpace THEN TrimStart(Tail(t)) ELSE t

RECURSIVE TrimEnd(_)
TrimEnd(t) ==
  IF t # <<>> /\ t[Len(t)] \in WhiteSpace
    THEN TrimEnd(SubSeq(t, 1, Len(t) - 1))
  ELSE t

\* q.trim()
Trim(t) == TrimEnd(TrimStart(t))

\* toLowerCase, on the letters that occur here.
LowerChar(c) ==
  CASE c = "E" -> "e"
    [] c = "N" -> "n"
    [] c = "X" -> "x"
    [] OTHER -> c

ToLowerCase(t) == [i \in DOMAIN t |-> LowerChar(t[i])]

\* { contains: searchTerm, mode: 'insensitive' }
ContainsInsensitive(field, term) ==
  LET hay == ToLowerCase(field)
      needle == ToLowerCase(term)
  IN \E i \in 0 .. (Len(hay) - Len(needle)) :
       SubSeq(hay, i + 1, i + Len(needle)) = needle

\* take: 10
SearchTake == 10

\* searchUsers trimming nothing before its emptiness test.
SearchUsersRejects_NoTrim(q) == ~q.present \/ Len(q.text) = 0

\* if (!q || q.trim().length === 0) return res.json([]);
SearchUsersRejects(q) ==
  ~q.present \/ Len(q.text) = 0 \/ Len(Trim(q.text)) = 0

\* where: { OR: [ email contains, name contains ] }
SearchUsersWhere(u, searchTerm) ==
  \/ ContainsInsensitive(CharsOf[u.email], searchTerm)
  \/ ContainsInsensitive(CharsOf[u.name], searchTerm)

CallSearchUsers(r) ==
  /\ CanCall(r)
  /\ \E auth \in ClerkIds \cup {NoAuth}, q \in Queries :
       LET req == [Idle EXCEPT !.op = "searchUsers", !.auth = auth, !.q = q]
       IN reqs' = [reqs EXCEPT ![r] =
            IF ~AttachClerkUser(auth)
              THEN [req EXCEPT !.pc = "done", !.resp = Unauthorized]
            ELSE IF SearchUsersRejects(q)
              THEN [req EXCEPT !.pc = "done", !.resp = ReplyRows(200, {})]
            ELSE [req EXCEPT !.pc = "findMany"]]
  /\ UNCHANGED <<users, friendships, nextId, client, syncs>>

SearchUsersFind(r) ==
  /\ reqs[r].op = "searchUsers" /\ reqs[r].pc = "findMany"
  /\ LET searchTerm == ToLowerCase(Trim(reqs[r].q.text))
         matches == { u \in users : SearchUsersWhere(u, searchTerm) }
     IN \E rows \in SUBSET matches :
          /\ \/ rows = matches /\ Cardinality(matches) <= SearchTake
             \/ Cardinality(rows) = SearchTake
          /\ Finish(r, ReplyRows(200, rows))
  /\ UNCHANGED <<users, friendships, nextId, client, syncs>>

----------------------------------------------------------------------------
(* The application: every route mounted in index.js that is modelled *)

\* POST /api/sync-user of a user whose row is up to date, of a new identity
\* with that user's email, or of nobody.
AppSyncUser(r) ==
  /\ CallSyncUser(r)
  /\ reqs'[r].auth \in {NoAuth, "c1", "c3"}
  /\ reqs'[r].email = "e1"
  /\ reqs'[r].name = "n1"

AppNext ==
  \/ Next
  \/ \E r \in Reqs :
       \/ CallSearchUsers(r)
       \/ SearchUsersFind(r)
       \/ AppSyncUser(r)
       \/ SyncUserFind(r)
       \/ SyncUserUpdate(r)
       \/ SyncUserCreate(r)

SpecApp == Init /\ [][AppNext]_vars

----------------------------------------------------------------------------
(* The device and the identity sync service *)

ClientInit ==
  /\ users = {}
  /\ friendships = {}
  /\ nextId = 1
  /\ reqs = [r \in Reqs |-> Idle]
  /\ \E id \in {NoStoredId, OldStoredId} :
       client = [Mounted EXCEPT !.stored = id]
  /\ syncs = [s \in Syncs |-> NotRunning]

ClientStep(s) ==
  \/ GetTokenResolves(s)
  \/ PostSyncUser(s)
  \/ FetchThrows(s)
  \/ FetchResolves(s)
  \/ SetItemResolves(s)

ServerStep(r) ==
  \/ SyncUserFind(r)
  \/ SyncUserUpdate(r)
  \/ SyncUserCreate(r)

ClientNext ==
  \/ Render
  \/ EffectRun
  \/ \E s \in Syncs : ClientStep(s)
  \/ \E r \in Reqs : ServerStep(r)
  \/ \E r \in Reqs : OtherDeviceSync(r)
  \/ \E r \in Reqs : OtherDeviceClose(r)

SpecClient == ClientInit /\ [][ClientNext]_vars

\* The event loop runs every effect and continuation that is ready, and the
\* server answers every request.
ClientFairness ==
  /\ WF_vars(EffectRun)
  /\ \A s \in Syncs : WF_vars(ClientStep(s))
  /\ \A r \in Reqs : WF_vars(ServerStep(r))

LiveSpecClient == ClientInit /\ [][ClientNext]_vars /\ ClientFairness

----------------------------------------------------------------------------
(* Properties of the friendship service *)

\* The storage step of a request: the step in which the awaited call of
\* handler op, suspended at pc, completes and the response is sent.
StorageStep(r, op, pc) ==
  /\ reqs[r].op = op /\ reqs[r].pc = pc
  /\ reqs'[r].pc = "done"

Answered(r, op) == reqs[r].op = op /\ reqs[r].pc = "done"

AlreadySent(resp) ==
  resp.status = 400 /\ resp.text = "Friend request already sent."

NotFound(resp) == resp.status = 404

\* The local users whose auth-provider identity is c.
UsersOfClerk(c) == { u.id : u \in { v \in users : v.clerkId = c } }

\* C1: in every reachable state the Friendships table holds at most one
\* edge for each ordered pair (userId, friendId).
C1_UniqueOrderedPair ==
  \A e1 \in friendships, e2 \in friendships :
    (e1.userId = e2.userId /\ e1.friendId = e2.friendId) => e1 = e2

\* The pair (u1, u2) was given edge 1, that edge left the store, and the
\* pair now holds a later edge.
C1_Witness ==
  \E r \in Reqs, e \in friendships :
    /\ Answered(r, "addFriend") /\ reqs[r].resp.status = 201
    /\ reqs[r].resp.friendship.id = 1
    /\ e.userId = reqs[r].userId /\ e.friendId = reqs[r].friendId
    /\ e.id > 1

\* C2: when the create of a sendRequest(A,B), for users A # B, completes
\* while another sendRequest(A,B) is in flight or answered, it is answered
\* 201 exactly when no edge (A,B) was present, otherwise with the conflict
\* reply and not a 500, in which case the table is unchanged; either way
\* the table then holds exactly one edge (A,B).
C2_ConcurrentSendOneWinner ==
  [][ \A r \in Reqs, r2 \in Reqs :
        ( /\ r # r2
          /\ StorageStep(r, "addFriend", "create")
          /\ UserExists(users, reqs[r].userId)
          /\ UserExists(users, reqs[r].friendId)
          /\ reqs[r2].op = "addFriend"
          /\ reqs[r2].pc \in {"create", "done"}
          /\ reqs[r2].userId = reqs[r].userId
          /\ reqs[r2].friendId = reqs[r].friendId )
        => LET resp == reqs'[r].resp
               old  == EdgesOfPair(friendships, reqs[r].userId, reqs[r].friendId)
               new  == EdgesOfPair(friendships', reqs[r].userId, reqs[r].friendId)
           IN /\ resp.status \in {201, 400}
              /\ (resp.status = 201) <=> (old = {})
              /\ (resp.status = 400) =>
                   (AlreadySent(resp) /\ friendships' = friendships)
              /\ Cardinality(new) = 1 ]_vars

\* Two sendRequest calls for the same pair have both been answered, one
\* with 201 and the edge it created, the other with the conflict reply.
C2_Witness ==
  \E r \in Reqs, r2 \in Reqs :
    /\ r # r2
    /\ Answered(r, "addFriend") /\ Answered(r2, "addFriend")
    /\ reqs[r].userId = reqs[r2].userId
    /\ reqs[r].friendId = reqs[r2].friendId
    /\ reqs[r].resp.status = 201
    /\ reqs[r].resp.friendship \in friendships
    /\ AlreadySent(reqs[r2].resp)

\* C3: for users A # B, sendRequest(A,B) with no edge (A,B) is answered 201
\* and adds exactly the returned edge (A,B) with status PENDING; with an
\* edge (A,B) present, PENDING or ACCEPTED, it is answered with the
\* conflict reply and the table is unchanged.
C3_SendThenDuplicate ==
  [][ \A r \in Reqs :
        ( /\ StorageStep(r, "addFriend", "create")
          /\ UserExists(users, reqs[r].userId)
          /\ UserExists(users, reqs[r].friendId)
          /\ reqs[r].userId # reqs[r].friendId )
        => LET resp == reqs'[r].resp
               old  == EdgesOfPair(friendships, reqs[r].userId, reqs[r].friendId)
           IN IF old = {}
                THEN /\ resp.status = 201
                     /\ resp.friendship.status = "PENDING"
                     /\ resp.friendship.userId = reqs[r].userId
                     /\ resp.friendship.friendId = reqs[r].friendId
                     /\ resp.friendship \notin friendships
                     /\ friendships' = friendships \cup {resp.friendship}
                ELSE /\ AlreadySent(resp)
                     /\ friendships' = friendships ]_vars

\* A second sendRequest was refused while the edge of its pair is ACCEPTED.
C3_Witness ==
  \E r \in Reqs, e \in friendships :
    /\ Answered(r, "addFriend") /\ AlreadySent(reqs[r].resp)
    /\ e.userId = reqs[r].userId /\ e.friendId = reqs[r].friendId
    /\ e.status = "ACCEPTED"

\* C4: an authenticated sendRequest(X,X) is answered with the 400
\* validation error without reaching the store, and no edge has
\* userId = friendId.
C4_NoSelfFriendship ==
  /\ \A e \in friendships : e.userId # e.friendId
  /\ \A r \in Reqs :
       ( /\ reqs[r].op = "addFriend"
         /\ reqs[r].auth # NoAuth
         /\ reqs[r].userId = reqs[r].friendId )
       => /\ reqs[r].pc = "done"
          /\ reqs[r].resp = Reply(400, "Cannot add yourself as a friend.")

\* sendRequest(X,X) has been answered while the store holds an edge.
C4_Witness ==
  \E r \in Reqs :
    /\ Answered(r, "addFriend")
    /\ reqs[r].auth # NoAuth
    /\ reqs[r].userId = reqs[r].friendId
    /\ reqs[r].resp.status = 400
    /\ friendships # {}

\* C5: acceptRequest(id) is answered 404 and changes nothing whenever id is
\* not the id of a currently PENDING edge (never created, rejected,
\* removed, or already accepted).
C5_AcceptOnlyPending ==
  [][ \A r \in Reqs :
        ( /\ StorageStep(r, "acceptFriendRequest", "update")
          /\ ~ \E e \in friendships :
                 e.id = reqs[r].id /\ e.status = "PENDING" )
        => /\ NotFound(reqs'[r].resp)
           /\ friendships' = friendships ]_vars

\* C6: of an acceptRequest(id) and a rejectRequest(id) on the same edge,
\* the one that completes after the other has succeeded is answered 404
\* and changes nothing, in both orders.
C6_AcceptRejectFirstWins ==
  [][ \A r \in Reqs, r2 \in Reqs :
        ( /\ r # r2
          /\ reqs[r].id = reqs[r2].id
          /\ \/ /\ StorageStep(r, "rejectFriendRequest", "delete")
                /\ Answered(r2, "acceptFriendRequest")
             \/ /\ StorageStep(r, "acceptFriendRequest", "update")
                /\ Answered(r2, "rejectFriendRequest")
          /\ reqs[r2].resp.status = 200 )
        => /\ NotFound(reqs'[r].resp)
           /\ friendships' = friendships ]_vars

\* C7: acceptRequest(id) on an existing PENDING edge sets that edge's
\* status to ACCEPTED and changes nothing else: not its id, userId or
\* friendId, no other edge, no User row.
C7_AcceptFrame ==
  [][ \A r \in Reqs, e \in friendships :
        ( /\ StorageStep(r, "acceptFriendRequest", "update")
          /\ e.id = reqs[r].id
          /\ e.status = "PENDING" )
        => /\ friendships' =
                (friendships \ {e}) \cup {[e EXCEPT !.status = "ACCEPTED"]}
           /\ users' = users
           /\ nextId' = nextId
           /\ reqs'[r].resp.status = 200 ]_vars

\* An acceptRequest has succeeded and its edge is ACCEPTED while another
\* edge is still PENDING.
C7_Witness ==
  \E r \in Reqs, e \in friendships, o \in friendships :
    /\ Answered(r, "acceptFriendRequest") /\ reqs[r].resp.status = 200
    /\ e.id = reqs[r].id /\ e.status = "ACCEPTED"
    /\ o.id # e.id /\ o.status = "PENDING"

\* C8: an edge is created PENDING, its status changes only from PENDING to
\* ACCEPTED, rejectRequest deletes only PENDING edges, and an ACCEPTED
\* edge leaves the store only through removeFriendship.
C8_Lifecycle ==
  [][ \A id \in EdgeIds :
        LET old == EdgeWithId(friendships, id)
            new == EdgeWithId(friendships', id)
        IN /\ (old = {} /\ new # {}) =>
                (\A e \in new : e.status = "PENDING")
           /\ (old # {} /\ new # {} /\ old # new) =>
                /\ \A e \in old : e.status = "PENDING"
                /\ \A e \in new : e.status = "ACCEPTED"
           /\ (old # {} /\ new = {}) =>
                /\ (\E r \in Reqs : StorageStep(r, "rejectFriendRequest", "delete"))
                     => \A e \in old : e.status = "PENDING"
                /\ (\E e \in old : e.status = "ACCEPTED")
                     => \E r \in Reqs : StorageStep(r, "removeFriend", "delete") ]_vars

\* C9: an acceptRequest or rejectRequest on a PENDING edge made by an
\* authenticated user other than the edge's friendId side leaves the
\* table unchanged.
C9_OnlyRecipientResolves ==
  [][ \A r \in Reqs, e \in friendships :
        ( /\ \/ StorageStep(r, "acceptFriendRequest", "update")
             \/ StorageStep(r, "rejectFriendRequest", "delete")
          /\ e.id = reqs[r].id
          /\ e.status = "PENDING"
          /\ e.friendId \notin UsersOfClerk(reqs[r].auth) )
        => friendships' = friendships ]_vars

\* C10: rejectRequest(id) deletes the edge with that id when one exists and
\* is answered 200; when none exists it is answered 404 and the store is
\* unchanged.
C10_RejectDeletesOrNotFound ==
  [][ \A r \in Reqs :
        StorageStep(r, "rejectFriendRequest", "delete")
        => LET old == EdgeWithId(friendships, reqs[r].id)
           IN /\ IF old # {}
                   THEN /\ friendships' = friendships \ old
                        /\ reqs'[r].resp = Reply(200, "Friend request rejected.")
                   ELSE /\ friendships' = friendships
                        /\ NotFound(reqs'[r].resp)
              /\ users' = users ]_vars

\* One rejectRequest(id) has deleted its edge and a second rejectRequest
\* of the same id has been answered 404.
C10_Witness ==
  \E r \in Reqs, r2 \in Reqs :
    /\ r # r2
    /\ Answered(r, "rejectFriendRequest") /\ reqs[r].resp.status = 200
    /\ Answered(r2, "rejectFriendRequest") /\ NotFound(reqs[r2].resp)
    /\ reqs[r].id = reqs[r2].id
    /\ EdgeWithId(friendships, reqs[r].id) = {}

\* C11: when rejectRequest(edgeId) succeeds on an edge (A,B), the incoming
\* requests of B no longer hold an entry with friendshipId = edgeId, and a
\* fresh sendRequest(A,B) meets no uniqueness conflict and would create a
\* new PENDING edge.
C11_RejectRemovesRequest ==
  [][ \A r \in Reqs, e \in friendships :
        ( /\ StorageStep(r, "rejectFriendRequest", "delete")
          /\ e.id = reqs[r].id
          /\ reqs'[r].resp.status = 200 )
        => /\ \A x \in FriendRequestsOf(users', friendships', e.friendId) :
                x.friendshipId # e.id
           /\ EdgeWithId(friendships', e.id) = {}
           /\ FriendshipCreateCode(users', friendships',
                                   AddFriendData(e.userId, e.friendId)) = "ok"
           /\ AddFriendData(e.userId, e.friendId).status = "PENDING" ]_vars

\* rejectRequest(1) has succeeded and a later sendRequest was answered 201
\* with the fresh PENDING edge 2, which is the only edge in the store.
C11_Witness ==
  \E r \in Reqs, r2 \in Reqs :
    /\ Answered(r, "rejectFriendRequest") /\ reqs[r].resp.status = 200
    /\ reqs[r].id = 1
    /\ Answered(r2, "addFriend") /\ reqs[r2].resp.status = 201
    /\ reqs[r2].resp.friendship.id = 2
    /\ reqs[r2].resp.friendship.status = "PENDING"
    /\ friendships = {reqs[r2].resp.friendship}

\* C12: when the only edge between A and B is stored as (A,B), the lookup
\* of removeFriendship(B,A) finds that edge, as that of removeFriendship(A,B)
\* does.
C12_RemoveSymmetric ==
  [][ \A r \in Reqs, e \in friendships :
        ( /\ reqs[r].op = "removeFriend" /\ reqs[r].pc = "findFirst"
          /\ reqs'[r].pc # "findFirst"
          /\ \/ (e.userId = reqs[r].userId /\ e.friendId = reqs[r].friendId)
             \/ (e.userId = reqs[r].friendId /\ e.friendId = reqs[r].userId)
          /\ EdgesOfPair(friendships, e.friendId, e.userId) = {} )
        => /\ reqs'[r].pc = "delete"
           /\ reqs'[r].found = e.id ]_vars

\* C13: every removeFriendship(userId, friendId) is answered either 200,
\* having deleted the edge of that pair whatever its status, or 404 with
\* the store unchanged when no edge of that pair exists.
C13_RemoveDeletesOrNotFound ==
  [][ \A r \in Reqs :
        ( /\ reqs[r].op = "removeFriend"
          /\ reqs[r].pc \in {"findFirst", "delete"}
          /\ reqs'[r].pc = "done" )
        => LET old == EdgesOfPair(friendships, reqs[r].userId, reqs[r].friendId)
           IN IF old # {}
                THEN /\ reqs'[r].resp.status = 200
                     /\ friendships' = friendships \ old
                ELSE /\ NotFound(reqs'[r].resp)
                     /\ friendships' = friendships ]_vars

\* C14: getFriends(X) returns exactly the users B with an ACCEPTED edge
\* (X,B), each with that edge's id, and never a user connected to X only
\* by a PENDING edge.
C14_FriendsAreAccepted ==
  [][ \A r \in Reqs :
        StorageStep(r, "getUserFriends", "findMany")
        => reqs'[r].resp.rows =
             { [user |-> TheUser(users, e.friendId), friendshipId |-> e.id] :
                 e \in { x \in friendships :
                           x.userId = reqs[r].userId /\ x.status = "ACCEPTED" } } ]_vars

\* C15: once sendRequest(A,B) has created the edge edgeId and
\* acceptRequest(edgeId) has made it ACCEPTED, getFriends(A) is answered
\* 200 with B's User row carrying friendshipId = edgeId.
C15_AcceptedRoundTrip ==
  [][ \A r \in Reqs, e \in friendships :
        ( /\ StorageStep(r, "getUserFriends", "findMany")
          /\ e.userId = reqs[r].userId
          /\ e.status = "ACCEPTED" )
        => /\ reqs'[r].resp.status = 200
           /\ \E u \in users :
                /\ u.id = e.friendId
                /\ [user |-> u, friendshipId |-> e.id] \in reqs'[r].resp.rows ]_vars

\* acceptRequest(edgeId) has succeeded on an edge (A,B) and getFriends(A)
\* has been answered with B under that edgeId.
C15_Witness ==
  \E r \in Reqs, r2 \in Reqs :
    /\ Answered(r, "acceptFriendRequest") /\ reqs[r].resp.status = 200
    /\ Answered(r2, "getUserFriends")
    /\ reqs[r2].userId = reqs[r].resp.friendship.userId
    /\ \E x \in reqs[r2].resp.rows :
         /\ x.friendshipId = reqs[r].id
         /\ x.user.id = reqs[r].resp.friendship.friendId

\* C16: listIncomingRequests(U) returns exactly one entry, the requester's
\* User row with the edge's id, for each edge with friendId = U and status
\* PENDING, and nothing else (the empty list when there is none).
C16_IncomingArePending ==
  [][ \A r \in Reqs :
        StorageStep(r, "getFriendRequests", "findMany")
        => LET pending == { e \in friendships :
                              e.friendId = reqs[r].userId /\ e.status = "PENDING" }
               rows == reqs'[r].resp.rows
           IN /\ reqs'[r].resp.status = 200
              /\ rows = { [user |-> TheUser(users, e.userId),
                           friendshipId |-> e.id] : e \in pending }
              /\ Cardinality(rows) = Cardinality(pending)
              /\ \A x \in rows : \E e \in pending :
                   x.friendshipId = e.id /\ x.user.id = e.userId ]_vars

\* listIncomingRequests(U) has listed a requester while U has an ACCEPTED
\* edge of its own that is not listed, and the other connection got the
\* empty list for a user without pending requests.
C16_Witness ==
  \E r \in Reqs, r2 \in Reqs, e \in friendships :
    /\ Answered(r, "getFriendRequests")
    /\ Cardinality(reqs[r].resp.rows) = 1
    /\ e.userId = reqs[r].userId /\ e.status = "ACCEPTED"
    /\ \A x \in reqs[r].resp.rows : x.friendshipId # e.id
    /\ Answered(r2, "getFriendRequests") /\ reqs[r2].resp.status = 200
    /\ reqs[r2].resp.rows = {}

----------------------------------------------------------------------------
(* Properties of the identity sync service *)

\* The step of request r that performs the write of syncUser.
SyncWriteStep(r) ==
  /\ reqs[r].op = "syncUser"
  /\ reqs[r].pc \in {"update", "create"}
  /\ reqs'[r].pc = "done"

\* The email of request r is held by a row of another identity.
EmailOfAnother(r) ==
  \E u \in users : u.email = reqs[r].email /\ u.clerkId # reqs[r].auth

\* C17: syncUser is an upsert keyed on the Clerk identity. When the lookup
\* found the caller's row and the email is free, the write replaces that
\* row's email and name, keeps its id and clerkId, adds no row and returns
\* the row; when no row of the identity exists and the email is free, it adds
\* exactly one row carrying the identity under a fresh id and returns it.
C17_SyncIsUpsert ==
  [][\A r \in Reqs :
       (SyncWriteStep(r) /\ ~EmailOfAnother(r)) =>
         LET old == UserByClerkId(users, reqs[r].auth)
             out == reqs'[r].resp
         IN /\ (reqs[r].pc = "update" /\ old # {}) =>
                 \E u \in old :
                   /\ out.status = 200
                   /\ out.user = [id |-> u.id, clerkId |-> u.clerkId,
                                  email |-> reqs[r].email,
                                  name |-> reqs[r].name]
                   /\ users' = (users \ {u}) \cup {out.user}
                   /\ Cardinality(users') = Cardinality(users)
            /\ (old = {}) =>
                 /\ out.status = 200
                 /\ out.user.clerkId = reqs[r].auth
                 /\ out.user.email = reqs[r].email
                 /\ out.user.name = reqs[r].name
                 /\ \A u \in users : u.id # out.user.id
                 /\ users' = users \cup {out.user}
                 /\ Cardinality(users') = Cardinality(users) + 1]_vars

\* One identity synced with email e1 and then with e2: both calls returned
\* the same user id and the row now holds e2.
C17_Witness ==
  \E r1, r2 \in Reqs :
    /\ Answered(r1, "syncUser") /\ Answered(r2, "syncUser")
    /\ reqs[r1].auth = reqs[r2].auth
    /\ reqs[r1].email = "e1" /\ reqs[r2].email = "e2"
    /\ reqs[r1].resp.status = 200 /\ reqs[r2].resp.status = 200
    /\ reqs[r1].resp.user.id = reqs[r2].resp.user.id
    /\ reqs[r2].resp.user \in users
    /\ Cardinality(UserByClerkId(users, reqs[r1].auth)) = 1

\* C18: identity sync is idempotent. Once the row of an identity holds the
\* profile P, a further sync of that identity with P finds the row, takes the
\* update path, answers 200 with the same user id and leaves the Users table
\* with the same rows.
C18_SyncIdempotent ==
  [][\A r \in Reqs :
       \A u \in UserByClerkId(users, reqs[r].auth) :
         (/\ reqs[r].op = "syncUser"
          /\ u.email = reqs[r].email /\ u.name = reqs[r].name) =>
           /\ (reqs[r].pc = "findUnique" /\ reqs'[r].pc # "findUnique")
                => reqs'[r].pc = "update"
           /\ (reqs[r].pc = "update" /\ reqs'[r].pc = "done") =>
                /\ reqs'[r].resp.status = 200
                /\ reqs'[r].resp.user.id = u.id
                /\ users' = users]_vars

\* Two syncs of one identity with the same profile, both answered with the
\* same user, and a single row.
C18_Witness ==
  \E r1, r2 \in Reqs :
    /\ r1 # r2
    /\ Answered(r1, "syncUser") /\ Answered(r2, "syncUser")
    /\ reqs[r1].auth = reqs[r2].auth
    /\ reqs[r1].email = reqs[r2].email /\ reqs[r1].name = reqs[r2].name
    /\ reqs[r1].resp.status = 200 /\ reqs[r2].resp.status = 200
    /\ reqs[r1].resp.user.id = reqs[r2].resp.user.id
    /\ Cardinality(users) = 1

\* C19: under every interleaving of syncs, no two rows carry the same
\* clerkId, and a sync whose lookup found no row but whose create meets a
\* row of its identity (it lost the create race) is answered 409 and
\* writes nothing.
C19_SyncCreateRace ==
  [][/\ \A u1, u2 \in users' : u1.clerkId = u2.clerkId => u1 = u2
     /\ \A r \in Reqs :
          (/\ SyncWriteStep(r)
           /\ reqs[r].pc = "create"
           /\ UserByClerkId(users, reqs[r].auth) # {}) =>
            /\ reqs'[r].resp.status = 409
            /\ users' = users]_vars

\* Two syncs of one new identity raced: one created the row, the other was
\* answered 409 although its email is held by no other identity.
C19_Witness ==
  \E r1, r2 \in Reqs :
    /\ Answered(r1, "syncUser") /\ Answered(r2, "syncUser")
    /\ reqs[r1].auth = reqs[r2].auth
    /\ reqs[r1].resp.status = 200
    /\ reqs[r2].resp.status = 409
    /\ ~EmailOfAnother(r2)
    /\ users = {reqs[r1].resp.user}

\* C20: a sync whose email is held by a row of another identity is answered
\* 409 and leaves the Users table unchanged, on the create path and on the
\* update path.
C20_EmailConflict ==
  [][\A r \in Reqs :
       (SyncWriteStep(r) /\ EmailOfAnother(r)) =>
         /\ reqs'[r].resp.status = 409
         /\ users' = users]_vars

\* One sync refused on the update path (its identity has a row) and one on
\* the create path (its identity has none), both for an email of another
\* identity.
C20_Witness ==
  \E r1, r2 \in Reqs :
    /\ Answered(r1, "syncUser") /\ Answered(r2, "syncUser")
    /\ reqs[r1].resp.status = 409 /\ reqs[r2].resp.status = 409
    /\ EmailOfAnother(r1) /\ EmailOfAnother(r2)
    /\ UserByClerkId(users, reqs[r1].auth) # {}
    /\ UserByClerkId(users, reqs[r2].auth) = {}

\* C21: a sync without email is answered 400 when it is called, before any
\* storage call: it never waits on the lookup, the update or the create, and
\* the step that answers it leaves the Users table unchanged.
C21_MissingEmailRejected ==
  [][\A r \in Reqs :
       (/\ reqs'[r].op = "syncUser"
        /\ reqs'[r].auth # NoAuth
        /\ reqs'[r].email = MissingEmail
        /\ reqs'[r] # reqs[r]) =>
         /\ reqs[r].pc = "idle"
         /\ reqs'[r].pc = "done"
         /\ reqs'[r].resp.status = 400
         /\ users' = users]_vars

\* An authenticated sync without email answered 400 while another identity
\* holds a row.
C21_Witness ==
  \E r \in Reqs :
    /\ Answered(r, "syncUser")
    /\ reqs[r].auth # NoAuth
    /\ reqs[r].email = MissingEmail
    /\ reqs[r].resp.status = 400
    /\ users # {}
    /\ UserByClerkId(users, reqs[r].auth) = {}

----------------------------------------------------------------------------
(* Properties of the UserSync component *)

\* Ids of the User rows of the device's identity.
OwnUserIds == { u.id : u \in UserByClerkId(users, ClientClerkId) }

\* The device was answered 409 although its identity has a row: it lost the
\* create race against another device of the same user (no other identity
\* holds a row here, so no email conflict is possible).
LostCreateRace ==
  /\ client.lastStatus = 409
  /\ OwnUserIds # {}
  /\ \A u \in users : u.clerkId = ClientClerkId

\* C22: after the device loses the create race for its own identity (409),
\* it retries the sync and eventually stores the id of its User row.
C22_RetryAfterLostRace ==
  LostCreateRace ~> (client.stored \in OwnUserIds)

----------------------------------------------------------------------------
(* Further properties of the friendship and sync handlers *)

\* C23: two concurrent removeFriendship calls whose lookups found the same
\* edge behave as two atomic operations: one is answered 200 and the other
\* 404, never 500.
C23_ConcurrentRemoveAtomic ==
  \A r1, r2 \in Reqs :
    (/\ r1 # r2
     /\ Answered(r1, "removeFriend") /\ Answered(r2, "removeFriend")
     /\ reqs[r1].found # 0
     /\ reqs[r1].found = reqs[r2].found) =>
      {reqs[r1].resp.status, reqs[r2].resp.status} = {200, 404}

\* C24: every 500 response carries only the fixed message of its handler:
\* two requests of one handler answered 500 receive identical bodies,
\* whatever error the storage layer threw.
C24_GenericInternalError ==
  \A r1, r2 \in Reqs :
    (/\ reqs[r1].pc = "done" /\ reqs[r2].pc = "done"
     /\ reqs[r1].op = reqs[r2].op
     /\ reqs[r1].resp.status = 500
     /\ reqs[r2].resp.status = 500) =>
      reqs[r1].resp = reqs[r2].resp

\* C25: a request that carries no authenticated user id is answered 401 by
\* the middleware chain as soon as it is received, on every mounted route:
\* its handler never runs, it never waits on a storage call, and the tables
\* are unchanged.
C25_NoStoreAccessWithoutAuth ==
  [][\A r \in Reqs :
       (/\ reqs'[r] # reqs[r]
        /\ reqs'[r].op # "none"
        /\ reqs'[r].auth = NoAuth) =>
         /\ reqs[r].pc = "idle"
         /\ reqs'[r].pc = "done"
         /\ reqs'[r].resp = Unauthorized
         /\ users' = users
         /\ friendships' = friendships]_vars

\* An unauthenticated sync and an unauthenticated friend request, both
\* answered 401, with nothing written.
C25_Witness ==
  \E r1, r2 \in Reqs :
    /\ Answered(r1, "syncUser") /\ Answered(r2, "addFriend")
    /\ reqs[r1].auth = NoAuth /\ reqs[r2].auth = NoAuth
    /\ reqs[r1].resp.status = 401 /\ reqs[r2].resp.status = 401
    /\ friendships = {}

\* A query that is absent or made of white space only.
BlankQuery(q) ==
  ~q.present \/ \A i \in DOMAIN q.text : q.text[i] \in WhiteSpace

\* C26: searchUsers with a missing, empty or white-space-only query is
\* answered 200 with an empty list when it is called, without a storage
\* query.
C26_BlankSearchIsEmpty ==
  [][\A r \in Reqs :
       (/\ reqs'[r] # reqs[r]
        /\ reqs'[r].op = "searchUsers"
        /\ reqs'[r].auth # NoAuth
        /\ BlankQuery(reqs'[r].q)) =>
         /\ reqs[r].pc = "idle"
         /\ reqs'[r].pc = "done"
         /\ reqs'[r].resp.status = 200
         /\ reqs'[r].resp.rows = {}]_vars

\* A white-space-only search answered with the empty list while another
\* search returned both users.
C26_Witness ==
  \E r1, r2 \in Reqs :
    /\ Answered(r1, "searchUsers") /\ Answered(r2, "searchUsers")
    /\ reqs[r1].auth # NoAuth
    /\ Len(reqs[r1].q.text) > 0 /\ BlankQuery(reqs[r1].q)
    /\ reqs[r1].resp.status = 200 /\ reqs[r1].resp.rows = {}
    /\ reqs[r2].resp.rows = users /\ users # {}

\* The invocations of syncUser that are past the guard and have not returned.
Running == { s \in Syncs : syncs[s].pc # "idle" }

\* C27: for the mounted component, however renders and effect runs
\* interleave with the awaits of a running sync, at most one invocation of
\* syncUser is in progress, and syncingRef.current is set exactly while one
\* is: every exit path clears it.
C27_SingleFlight ==
  /\ Cardinality(Running) <= 1
  /\ client.syncing <=> (Running # {})

\* An effect re-ran during a sync and returned at the guard; the sync is
\* still awaiting its response.
C27_Witness ==
  /\ client.skipped
  /\ \E s \in Syncs : syncs[s].pc = "fetch"
  /\ ~client.effect.pending

\* C28: the mounted component sends at most one POST /api/sync-user: once a
\* sync has completed, no later effect run starts another one.
C28_SyncedOnce == client.posts <= 1

\* C29: AsyncStorage 'user_id' is written only when setItem resolves, with
\* the id of a 2xx response; an invocation that returns any other way leaves
\* it unchanged, and marks the component synced unless it returned for want
\* of a token.
C29_StoredOnlyOnSuccess ==
  [][/\ client'.stored # client.stored =>
          \E s \in Syncs : /\ syncs[s].pc = "setItem"
                           /\ syncs'[s].pc = "idle"
                           /\ client'.stored = syncs[s].id
     /\ \A s \in Syncs :
          /\ (syncs[s].pc # "setItem" /\ syncs'[s].pc = "setItem") =>
               /\ syncs[s].pc = "fetch"
               /\ reqs[syncs[s].slot].resp.status \in 200 .. 299
               /\ syncs'[s].id = reqs[syncs[s].slot].resp.user.id
          /\ (syncs[s].pc \in {"getToken", "authedFetch", "fetch"}
              /\ syncs'[s].pc = "idle") =>
               /\ client'.stored = client.stored
               /\ IF client'.log = "No token available for user sync"
                    THEN client'.synced = client.synced
                    ELSE client'.synced]_vars

\* A sync was refused with 409: the component is synced and the id stored by
\* an earlier session is still there.
C29_Witness ==
  /\ client.lastStatus = 409
  /\ client.synced
  /\ client.stored = OldStoredId
  /\ Running = {}

\* The edges of the direction opposite to (userId, friendId).
ReverseEdges(fs, userId, friendId) == EdgesOfPair(fs, friendId, userId)

\* C30: edges are unique per ordered pair only.  sendRequest(B,A) between
\* two users succeeds while an edge (A,B) exists, whatever its status, and
\* leaves that edge as it is; a successful acceptRequest leaves the edge of
\* the opposite direction as it is.
C30_PerDirectionEdges ==
  [][\A r \in Reqs :
       /\ (/\ StorageStep(r, "addFriend", "create")
           /\ UserExists(users, reqs[r].userId)
           /\ UserExists(users, reqs[r].friendId)
           /\ EdgesOfPair(friendships, reqs[r].userId, reqs[r].friendId) = {}
           /\ ReverseEdges(friendships, reqs[r].userId, reqs[r].friendId) # {})
          => /\ reqs'[r].resp.status = 201
             /\ reqs'[r].resp.friendship =
                  [id |-> nextId, userId |-> reqs[r].userId,
                   friendId |-> reqs[r].friendId, status |-> "PENDING"]
             /\ friendships' = friendships \cup {reqs'[r].resp.friendship}
       /\ \A e \in EdgeWithId(friendships, reqs[r].id) :
            (/\ StorageStep(r, "acceptFriendRequest", "update")
             /\ reqs'[r].resp.status = 200)
            => ReverseEdges(friendships', e.userId, e.friendId)
                 = ReverseEdges(friendships, e.userId, e.friendId)]_vars

\* Two edges between the same two users, one per direction: the later one
\* has been accepted and the earlier one is still PENDING.
C30_Witness ==
  \E r \in Reqs, e \in friendships, o \in friendships :
    /\ Answered(r, "acceptFriendRequest") /\ reqs[r].resp.status = 200
    /\ e.id = reqs[r].id /\ e.status = "ACCEPTED"
    /\ o.userId = e.friendId /\ o.friendId = e.userId
    /\ o.id < e.id /\ o.status = "PENDING"
====
